---- MODULE Spec2Model ----
(***************************************************************************)
(* gen_vectors.py: generator of a JSON test-vector file for BLAKE2s.       *)
(*                                                                         *)
(* The script is modelled statement by statement.  The output file is a    *)
(* sequence of lexical tokens (punctuation, string literal, whitespace);   *)
(* bytes are naturals, byte strings are sequences of them, and hex strings *)
(* are TLA+ strings.  The text stream returned by open() buffers what      *)
(* fd.write is given: the moment a write reaches the file is not decided   *)
(* by the script, so each write either stays in the buffer, is flushed, or *)
(* fails with an I/O error.  BLAKE2s itself is a collaborator (pyblake2):  *)
(* its digest is kept symbolic, an injective rendering of the parameter    *)
(* block the hash object is initialised with.                              *)
(***************************************************************************)
EXTENDS Integers, Sequences, FiniteSets, TLC

VARIABLES
    argv,        \* sys.argv of the current invocation
    pc,          \* position of the current invocation in the script
    i,           \* loop variable of the for loop being executed
    key_bytes,   \* main's key_bytes (<<>> before it is assigned)
    test,        \* main's test dict: its (key, value) pairs, insertion order
    fd,          \* the handle: "none" (never opened), "open", "closed", or
                 \* "reclaimed" (left open by main, gone with the process)
    buf,         \* tokens written through fd and not yet flushed to the file
    exists,      \* whether the output path names a file
    file,        \* content of the file at the output path
    stdout,      \* lines printed to standard output by this invocation
    status,      \* exit status of the invocation, NoStatus while it runs
    hashCalls,   \* number of blake2s(...) calls made by this invocation
    run,         \* number of the current invocation
    haveDone,    \* an earlier invocation ran main to its end
    lastDone     \* the file as the latest such invocation left it

vars ==
    <<argv, pc, i, key_bytes, test, fd, buf, exists, file, stdout, status,
      hashCalls, run, haveDone, lastDone>>

-----------------------------------------------------------------------------
(* Bounds of the model *)

\* invocations of the script in one behaviour
MaxRuns == 3

-----------------------------------------------------------------------------
(* Values *)

NoStatus == 0 - 1

\* range(n) as a byte string
Range(n) == [j \in 1..n |-> j - 1]

HexDigits ==
    <<"0", "1", "2", "3", "4", "5", "6", "7",
      "8", "9", "a", "b", "c", "d", "e", "f">>

\* a bug: bytes below 0x10 rendered with one digit, as '%x' does
HexByteUnpadded(b) ==
    IF b < 16 THEN HexDigits[b + 1]
    ELSE HexDigits[(b \div 16) + 1] \o HexDigits[(b % 16) + 1]

HexByte(b) == HexDigits[(b \div 16) + 1] \o HexDigits[(b % 16) + 1]

RECURSIVE HexFrom(_, _)
HexFrom(bytes, n) ==
    IF n > Len(bytes) THEN "" ELSE HexByte(bytes[n]) \o HexFrom(bytes, n + 1)

\* bytearray.hex(): two lower-case hex digits per byte
hex(bytes) == HexFrom(bytes, 1)

\* tokens of the output text
P(s) == [k |-> "punct", v |-> s]
S(s) == [k |-> "string", v |-> s]
W(s) == [k |-> "space", v |-> s]

Pad(bytes, n) == bytes \o [j \in 1..(n - Len(bytes)) |-> 0]

\* blake2s(data=b'', key=..., salt=..., person=...): the hash object, as the
\* parameter block it is initialised with; salt and person are zero-padded
\* to their field sizes (8 bytes each for BLAKE2s).
blake2s(key, salt, person) ==
    [data |-> <<>>, key |-> key,
     salt |-> Pad(salt, 8), person |-> Pad(person, 8)]

\* .hexdigest(): symbolic, one string per distinct (data, key, salt, person)
hexdigest(h) ==
    "blake2s(" \o hex(h.data) \o "," \o hex(h.key) \o "," \o hex(h.salt)
        \o "," \o hex(h.person) \o ")"

-----------------------------------------------------------------------------
(* The script's constants and expressions *)

\* a bug: the argument count checked against 1, which sys.argv always meets
NoPathArgumentOffByOne(a) == Len(a) < 1

\* len(sys.argv) < 2
NoPathArgument(a) == Len(a) < 2

UsageMessage == "Usage: gen_vectors.py <path to output file>"

\* sys.exit(1)
UsageExitCode == 1

\* exit status of the interpreter when main returns
SuccessExitCode == 0

\* a bug: the exception of main swallowed at the top level
UncaughtExitCodeSwallowed == SuccessExitCode

\* exit status of the interpreter when an exception leaves the script uncaught
UncaughtExitCode == 1

\* a bug: the file opened for appending
OpenModeAppend == "a"

\* open(output_fn, 'w')
OpenMode == "w"

\* a bug: a key one byte short
KeyBytesShort == Range(31)

\* bytearray(range(32))
KeyBytes == Range(32)

\* range(8) of the two loops
SaltCount == 8
PersonaCount == 8

\* a bug: the sweep run from the longest value to the shortest
SweepBytesDescending(n) == Range(SaltCount - n)

\* bytearray(range(i+1))
SweepBytes(n) == Range(n + 1)

\* the test dict of the salt sweep, iteration n
SaltTest(key, n) ==
    << <<"hash", "blake2s">>,
       <<"in", "">>,
       <<"key", hex(key)>>,
       <<"persona", "">>,
       <<"salt", hex(SweepBytes(n))>>,
       <<"out", hexdigest(blake2s(key, SweepBytes(n), <<>>))>> >>

\* a bug: the digest of the persona sweep computed as in the salt sweep
PersonaTestSaltedDigest(key, n) ==
    << <<"hash", "blake2s">>,
       <<"in", "">>,
       <<"key", hex(key)>>,
       <<"persona", hex(Range(n + 1))>>,
       <<"salt", "">>,
       <<"out", hexdigest(blake2s(key, Range(n + 1), <<>>))>> >>

\* the test dict of the persona sweep, iteration n
PersonaTest(key, n) ==
    << <<"hash", "blake2s">>,
       <<"in", "">>,
       <<"key", hex(key)>>,
       <<"persona", hex(SweepBytes(n))>>,
       <<"salt", "">>,
       <<"out", hexdigest(blake2s(key, <<>>, SweepBytes(n)))>> >>

RECURSIVE DumpItems(_, _)
DumpItems(d, n) ==
    IF n > Len(d) THEN <<>>
    ELSE <<W("\n "), S(d[n][1]), P(":"), W(" "), S(d[n][2])>>
         \o (IF n < Len(d) THEN <<P(",")>> ELSE <<>>)
         \o DumpItems(d, n + 1)

\* json.dumps(d, indent=True): one object, members in insertion order,
\* a one-space indent
JsonDumps(d) ==
    IF Len(d) = 0 THEN <<P("{"), P("}")>>
    ELSE <<P("{")>> \o DumpItems(d, 1) \o <<W("\n"), P("}")>>

\* '[\n'
ArrayOpen == <<P("["), W("\n")>>

\* json.dumps(test, indent=True)+',\n'
SaltLine(d) == JsonDumps(d) \o <<P(","), W("\n")>>

\* a bug: the separator written after the last record too
PersonaLineTrailingComma(d, n) == JsonDumps(d) \o <<P(","), W("\n")>>

\* json.dumps(test, indent=True)+(',' if i<7 else '')+'\n'
PersonaLine(d, n) ==
    JsonDumps(d) \o (IF n < 7 THEN <<P(",")>> ELSE <<>>) \o <<W("\n")>>

\* ']'
ArrayClose == <<P("]")>>

-----------------------------------------------------------------------------
(* The environment *)

ArgvChoices ==
    { <<"gen_vectors.py">>,
      <<"gen_vectors.py", "vectors.json">>,
      <<"gen_vectors.py", "vectors.json", "extra">> }

\* what the output path may hold before the first invocation
OldContent == <<S("old"), W("\n")>>

Init ==
    /\ argv \in ArgvChoices
    /\ pc = "start"
    /\ i = 0
    /\ key_bytes = <<>>
    /\ test = <<>>
    /\ fd = "none"
    /\ buf = <<>>
    /\ exists \in BOOLEAN
    /\ file \in (IF exists THEN {<<>>, OldContent} ELSE {<<>>})
    /\ stdout = <<>>
    /\ status = NoStatus
    /\ hashCalls = 0
    /\ run = 1
    /\ haveDone = FALSE
    /\ lastDone = <<>>

-----------------------------------------------------------------------------
(* __main__ *)

\* if len(sys.argv) < 2: print(usage); sys.exit(1)
Usage ==
    /\ pc = "start"
    /\ NoPathArgument(argv)
    /\ stdout' = Append(stdout, UsageMessage)
    /\ status' = UsageExitCode
    /\ pc' = "exited"
    /\ UNCHANGED <<argv, i, key_bytes, test, fd, buf, exists, file,
                   hashCalls, run, haveDone, lastDone>>

\* main(sys.argv[1])
CallMain ==
    /\ pc = "start"
    /\ ~NoPathArgument(argv)
    /\ pc' = "open"
    /\ UNCHANGED <<argv, i, key_bytes, test, fd, buf, exists, file, stdout,
                   status, hashCalls, run, haveDone, lastDone>>

-----------------------------------------------------------------------------
(* main *)

\* fd = open(output_fn, 'w'): creates the file or truncates it
Open ==
    /\ pc = "open"
    /\ fd' = "open"
    /\ buf' = <<>>
    /\ exists' = TRUE
    /\ file' = (IF OpenMode = "w" THEN <<>> ELSE file)
    /\ pc' = "key"
    /\ UNCHANGED <<argv, i, key_bytes, test, stdout, status, hashCalls, run,
                   haveDone, lastDone>>

\* open raises (the directory is missing or not writable)
OpenFail ==
    /\ pc = "open"
    /\ pc' = "raised"
    /\ UNCHANGED <<argv, i, key_bytes, test, fd, buf, exists, file, stdout,
                   status, hashCalls, run, haveDone, lastDone>>

\* key_bytes = bytearray(range(32))
AssignKey ==
    /\ pc = "key"
    /\ key_bytes' = KeyBytes
    /\ pc' = "write_open"
    /\ UNCHANGED <<argv, i, test, fd, buf, exists, file, stdout, status,
                   hashCalls, run, haveDone, lastDone>>

\* fd.write(data): the text goes to the stream's buffer, and the buffer may
\* be flushed to the file; a flush that fails raises out of main
Write(data, next) ==
    /\ fd = "open"
    /\ \/ /\ buf' = buf \o data
          /\ file' = file
          /\ pc' = next
       \/ /\ buf' = <<>>
          /\ file' = file \o buf \o data
          /\ pc' = next
       \/ /\ buf' = buf \o data
          /\ file' = file
          /\ pc' = "raised"

\* fd.write('[\n'), then the first for loop is entered
WriteArrayOpen ==
    /\ pc = "write_open"
    /\ Write(ArrayOpen, "salt_loop")
    /\ i' = 0
    /\ UNCHANGED <<argv, key_bytes, test, fd, exists, stdout, status,
                   hashCalls, run, haveDone, lastDone>>

\* for i in range(8): salt_bytes = ...; test = {...}
SaltBuild ==
    /\ pc = "salt_loop"
    /\ i < SaltCount
    /\ test' = SaltTest(key_bytes, i)
    /\ hashCalls' = hashCalls + 1
    /\ pc' = "salt_write"
    /\ UNCHANGED <<argv, i, key_bytes, fd, buf, exists, file, stdout, status,
                   run, haveDone, lastDone>>

\* a bug: the write of the first loop left outside the loop body, so that
\* only the last test of the loop is written
SaltWriteAfterLoop ==
    /\ pc = "salt_write"
    /\ IF i = SaltCount - 1
       THEN Write(SaltLine(test), "salt_loop")
       ELSE buf' = buf /\ file' = file /\ pc' = "salt_loop"
    /\ i' = (IF pc' = "raised" THEN i ELSE i + 1)
    /\ UNCHANGED <<argv, key_bytes, test, fd, exists, stdout, status,
                   hashCalls, run, haveDone, lastDone>>

\* fd.write(json.dumps(test, indent=True)+',\n')
SaltWrite ==
    /\ pc = "salt_write"
    /\ Write(SaltLine(test), "salt_loop")
    /\ i' = (IF pc' = "raised" THEN i ELSE i + 1)
    /\ UNCHANGED <<argv, key_bytes, test, fd, exists, stdout, status,
                   hashCalls, run, haveDone, lastDone>>

\* the first loop is exhausted, the second one is entered
SaltDone ==
    /\ pc = "salt_loop"
    /\ i >= SaltCount
    /\ i' = 0
    /\ pc' = "persona_loop"
    /\ UNCHANGED <<argv, key_bytes, test, fd, buf, exists, file, stdout,
                   status, hashCalls, run, haveDone, lastDone>>

\* for i in range(8): persona_bytes = ...; test = {...}
PersonaBuild ==
    /\ pc = "persona_loop"
    /\ i < PersonaCount
    /\ test' = PersonaTest(key_bytes, i)
    /\ hashCalls' = hashCalls + 1
    /\ pc' = "persona_write"
    /\ UNCHANGED <<argv, i, key_bytes, fd, buf, exists, file, stdout, status,
                   run, haveDone, lastDone>>

\* fd.write(json.dumps(test, indent=True)+(',' if i<7 else '')+'\n')
PersonaWrite ==
    /\ pc = "persona_write"
    /\ Write(PersonaLine(test, i), "persona_loop")
    /\ i' = (IF pc' = "raised" THEN i ELSE i + 1)
    /\ UNCHANGED <<argv, key_bytes, test, fd, exists, stdout, status,
                   hashCalls, run, haveDone, lastDone>>

\* the second loop is exhausted
PersonaDone ==
    /\ pc = "persona_loop"
    /\ i >= PersonaCount
    /\ pc' = "write_close"
    /\ UNCHANGED <<argv, i, key_bytes, test, fd, buf, exists, file, stdout,
                   status, hashCalls, run, haveDone, lastDone>>

\* fd.write(']')
WriteArrayClose ==
    /\ pc = "write_close"
    /\ Write(ArrayClose, "close")
    /\ UNCHANGED <<argv, i, key_bytes, test, fd, exists, stdout, status,
                   hashCalls, run, haveDone, lastDone>>

\* fd.close(): flushes the buffer and closes the handle; main returns
Close ==
    /\ pc = "close"
    /\ fd = "open"
    /\ file' = file \o buf
    /\ buf' = <<>>
    /\ fd' = "closed"
    /\ pc' = "returned"
    /\ UNCHANGED <<argv, i, key_bytes, test, exists, stdout, status,
                   hashCalls, run, haveDone, lastDone>>

\* fd.close() whose flush fails: the handle is closed all the same and the
\* error raises out of main
CloseFail ==
    /\ pc = "close"
    /\ fd = "open"
    /\ buf' = <<>>
    /\ fd' = "closed"
    /\ pc' = "raised"
    /\ UNCHANGED <<argv, i, key_bytes, test, exists, file, stdout, status,
                   hashCalls, run, haveDone, lastDone>>

-----------------------------------------------------------------------------
(* the process boundary *)

\* main returned: the script ends, the interpreter exits with status 0
ExitSuccess ==
    /\ pc = "returned"
    /\ status' = SuccessExitCode
    /\ pc' = "exited"
    /\ UNCHANGED <<argv, i, key_bytes, test, fd, buf, exists, file, stdout,
                   hashCalls, run, haveDone, lastDone>>

\* an exception left main: nothing catches it, the interpreter exits with
\* status 1.  A handle still open is reclaimed with the process; what its
\* buffer held reaches the file or is lost.
ExitUncaught ==
    /\ pc = "raised"
    /\ status' = UncaughtExitCode
    /\ pc' = "exited"
    /\ fd' = (IF fd = "open" THEN "reclaimed" ELSE fd)
    /\ buf' = <<>>
    /\ file' \in {file, file \o buf}
    /\ UNCHANGED <<argv, i, key_bytes, test, exists, stdout, hashCalls, run,
                   haveDone, lastDone>>

\* the script is invoked again; only the file system outlives a process
Invoke ==
    /\ pc = "exited"
    /\ run < MaxRuns
    /\ argv' \in ArgvChoices
    /\ pc' = "start"
    /\ i' = 0
    /\ key_bytes' = <<>>
    /\ test' = <<>>
    /\ fd' = "none"
    /\ buf' = <<>>
    /\ stdout' = <<>>
    /\ status' = NoStatus
    /\ hashCalls' = 0
    /\ run' = run + 1
    /\ haveDone' = (haveDone \/ status = SuccessExitCode)
    /\ lastDone' = (IF status = SuccessExitCode THEN file ELSE lastDone)
    /\ UNCHANGED <<exists, file>>

Next ==
    \/ Usage
    \/ CallMain
    \/ Open
    \/ OpenFail
    \/ AssignKey
    \/ WriteArrayOpen
    \/ SaltBuild
    \/ SaltWrite
    \/ SaltDone
    \/ PersonaBuild
    \/ PersonaWrite
    \/ PersonaDone
    \/ WriteArrayClose
    \/ Close
    \/ CloseFail
    \/ ExitSuccess
    \/ ExitUncaught
    \/ Invoke

Spec == Init /\ [][Next]_vars

-----------------------------------------------------------------------------
(* Reading the output back: a JSON array of flat objects, as a consumer of  *)
(* the vector file parses it.  The parser accepts a prefix of an array and  *)
(* reports how far the text got.                                            *)

\* what the current invocation has sent through fd.write so far
Emitted == IF fd = "none" THEN <<>> ELSE file \o buf

Significant(tokens) == SelectSeq(tokens, LAMBDA t : t.k # "space")

BadObject == [ok |-> FALSE, members |-> <<>>, next |-> 0]

RECURSIVE ParseMembers(_, _, _)
ParseMembers(t, pos, acc) ==
    IF pos + 3 > Len(t) THEN BadObject
    ELSE IF ~(t[pos].k = "string" /\ t[pos + 1] = P(":")
              /\ t[pos + 2].k = "string")
    THEN BadObject
    ELSE LET more == Append(acc, <<t[pos].v, t[pos + 2].v>>)
         IN  IF t[pos + 3] = P(",") THEN ParseMembers(t, pos + 4, more)
             ELSE IF t[pos + 3] = P("}")
             THEN [ok |-> TRUE, members |-> more, next |-> pos + 4]
             ELSE BadObject

\* t[pos] is "{"
ParseObject(t, pos) ==
    IF pos + 1 <= Len(t) /\ t[pos + 1] = P("}")
    THEN [ok |-> TRUE, members |-> <<>>, next |-> pos + 2]
    ELSE ParseMembers(t, pos + 1, <<>>)

\* the object as a mapping from member name to value
AsRecord(members) ==
    LET names == {members[n][1] : n \in 1..Len(members)}
    IN  [name \in names |->
            members[CHOOSE n \in 1..Len(members) : members[n][1] = name][2]]

RECURSIVE ParseElements(_, _, _, _)
ParseElements(t, pos, state, records) ==
    IF pos > Len(t) THEN [state |-> state, records |-> records]
    ELSE IF state \in {"open", "comma"} /\ t[pos] = P("{")
    THEN LET obj == ParseObject(t, pos)
         IN  IF obj.ok
             THEN ParseElements(t, obj.next, "element",
                                Append(records, AsRecord(obj.members)))
             ELSE [state |-> "invalid", records |-> records]
    ELSE IF state = "element" /\ t[pos] = P(",")
    THEN ParseElements(t, pos + 1, "comma", records)
    ELSE IF state \in {"open", "element"} /\ t[pos] = P("]")
    THEN ParseElements(t, pos + 1, "closed", records)
    ELSE [state |-> "invalid", records |-> records]

\* state: "empty" (no text), "open" (after '['), "element" (after an
\* object), "comma" (after a separator), "closed" (after ']'), "invalid"
ParseArray(tokens) ==
    LET t == Significant(tokens)
    IN  IF Len(t) = 0 THEN [state |-> "empty", records |-> <<>>]
        ELSE IF t[1] # P("[") THEN [state |-> "invalid", records |-> <<>>]
        ELSE ParseElements(t, 2, "open", <<>>)

Parsed == ParseArray(Emitted)
Records == Parsed.records

FieldNames == {"hash", "in", "key", "persona", "salt", "out"}
WellFormed(r) == DOMAIN r = FieldNames

\* hex strings of the byte strings [0, 1, ..., n-1], and the decoding of a
\* hex string among them
HexTable == [n \in 0..32 |-> hex(Range(n))]
NotHex == <<0 - 1>>
FromHex(s) ==
    IF \E n \in 0..32 : HexTable[n] = s
    THEN Range(CHOOSE n \in 0..32 : HexTable[n] = s)
    ELSE NotHex

\* main ran to its end: it returned, or the process exited after it did
MainCompleted ==
    \/ pc = "returned"
    \/ pc = "exited" /\ status = SuccessExitCode

-----------------------------------------------------------------------------
(* Claims *)

\* position of a record in the two sweeps: 1..8 for the salt sweep by salt
\* length, 9..16 for the persona sweep by persona length
SweepIndex(r) ==
    IF r["persona"] = "" THEN Len(FromHex(r["salt"]))
    ELSE IF r["salt"] = "" THEN 8 + Len(FromHex(r["persona"]))
    ELSE 0

\* C1: at every moment the records written so far are the first records of
\* the sequence salt sweep i = 0..7, persona sweep i = 0..7, each at its
\* place, and a run of main that completes has written exactly 16 of them.
C1_RecordOrder ==
    LET parsed == Parsed
        recs == parsed.records
    IN
        /\ Len(recs) <= 16
        /\ \A k \in 1..Len(recs) :
              /\ WellFormed(recs[k])
              /\ FromHex(recs[k]["salt"]) # NotHex
              /\ FromHex(recs[k]["persona"]) # NotHex
              /\ SweepIndex(recs[k]) = k
        /\ MainCompleted => Len(recs) = 16

C1_Witness ==
    LET parsed == Parsed
        recs == parsed.records
    IN
        /\ pc = "returned"
        /\ Len(recs) = 16
        /\ SweepIndex(recs[8]) = 8
        /\ SweepIndex(recs[9]) = 9

ExpectedHex ==
    <<"00", "0001", "000102", "00010203", "0001020304", "000102030405",
      "00010203040506", "0001020304050607">>

\* C2: record k of 1..8 has an empty persona and the hex string of
\* [0..k-1] as salt, record k of 9..16 an empty salt and the hex string of
\* [0..k-9] as persona; a completed run has all 16.
C2_SweepValues ==
    LET parsed == Parsed
        recs == parsed.records
    IN
        /\ \A k \in 1..Len(recs) :
              /\ WellFormed(recs[k])
              /\ k <= 16
              /\ k <= 8 => /\ recs[k]["persona"] = ""
                           /\ recs[k]["salt"] = ExpectedHex[k]
              /\ k > 8 => /\ recs[k]["salt"] = ""
                          /\ recs[k]["persona"] = ExpectedHex[k - 8]
        /\ MainCompleted =>
              /\ Len(recs) = 16
              /\ recs[1]["salt"] = "00"
              /\ recs[8]["salt"] = "0001020304050607"
              /\ recs[9]["persona"] = "00"
              /\ recs[16]["persona"] = "0001020304050607"

C2_Witness ==
    LET parsed == Parsed
        recs == parsed.records
    IN
        /\ MainCompleted
        /\ Len(recs) = 16
        /\ recs[8]["salt"] = "0001020304050607"
        /\ recs[16]["persona"] = "0001020304050607"

ExpectedKeyHex ==
    "000102030405060708090a0b0c0d0e0f101112131415161718191a1b1c1d1e1f"

\* C3: in every record written, exactly one of salt and persona is
\* non-empty, hash is "blake2s", in is empty and key is the hex string of
\* [0..31]; key_bytes holds [0..31] from its assignment to the end of main.
C3_RecordInvariant ==
    LET parsed == Parsed
        recs == parsed.records
    IN
        /\ \A k \in 1..Len(recs) :
              /\ WellFormed(recs[k])
              /\ (recs[k]["salt"] = "") # (recs[k]["persona"] = "")
              /\ recs[k]["hash"] = "blake2s"
              /\ recs[k]["in"] = ""
              /\ recs[k]["key"] = ExpectedKeyHex
        /\ (hashCalls > 0 \/ Len(Emitted) > 0) =>
              /\ Len(key_bytes) = 32
              /\ \A j \in 1..32 : key_bytes[j] = j - 1

C3_Witness ==
    LET parsed == Parsed
        recs == parsed.records
    IN
        /\ Len(recs) = 16
        /\ recs[1]["key"] = ExpectedKeyHex
        /\ recs[16]["key"] = ExpectedKeyHex
        /\ recs[16]["salt"] = ""

\* C4: an invocation without a path argument does one thing: it prints the
\* usage message and exits with status 1; it opens no file, leaves the file
\* system as it is, computes no hash and writes nothing.
C4_UsageError ==
    [][(Len(argv) < 2 /\ pc # "exited") =>
          /\ pc' = "exited"
          /\ status' = 1
          /\ stdout' = <<"Usage: gen_vectors.py <path to output file>">>
          /\ fd = "none" /\ fd' = "none"
          /\ hashCalls = 0 /\ hashCalls' = 0
          /\ buf = <<>> /\ buf' = <<>>
          /\ exists' = exists
          /\ file' = file]_vars

C4_Witness ==
    /\ Len(argv) < 2
    /\ pc = "exited"
    /\ status = 1
    /\ stdout = <<"Usage: gen_vectors.py <path to output file>">>
    /\ ~exists

\* C5: the out field of every record written is the digest of the empty
\* message under the key, salt and persona that the same record carries.
C5_DigestOfOwnParameters ==
    LET parsed == Parsed
        recs == parsed.records
    IN
        \A k \in 1..Len(recs) :
            /\ WellFormed(recs[k])
            /\ FromHex(recs[k]["key"]) # NotHex
            /\ FromHex(recs[k]["salt"]) # NotHex
            /\ FromHex(recs[k]["persona"]) # NotHex
            /\ recs[k]["in"] = ""
            /\ recs[k]["out"] =
                  hexdigest(blake2s(FromHex(recs[k]["key"]),
                                    FromHex(recs[k]["salt"]),
                                    FromHex(recs[k]["persona"])))

C5_Witness ==
    LET parsed == Parsed
        recs == parsed.records
    IN
        /\ MainCompleted
        /\ Len(recs) = 16
        /\ recs[2]["out"] # recs[10]["out"]
        /\ recs[10]["out"] # recs[11]["out"]

\* C6: the text written is at every moment a prefix of one JSON array: '['
\* first, a comma after each of records 1..15, none after record 16, and ']'
\* only after 16 records; a completed run has written the closed array.
C6_ArrayFraming ==
    LET parsed == Parsed
        recs == parsed.records
    IN
        /\ parsed.state # "invalid"
        /\ parsed.state = "comma" => Len(recs) \in 1..15
        /\ parsed.state = "element" => Len(recs) = 16
        /\ parsed.state = "closed" => Len(recs) = 16
        /\ MainCompleted => parsed.state = "closed"

C6_Witness ==
    LET parsed == Parsed
        recs == parsed.records
    IN
        /\ pc = "returned"
        /\ parsed.state = "closed"
        /\ Len(recs) = 16

\* C7: main is never left by an exception with the handle it opened still
\* open.
C7_HandleReleased ==
    pc = "raised" => fd # "open"

\* C8: a run of main that completes leaves the same file as the completed
\* run before it, and nothing of what the file held before the first run.
C8_Idempotent ==
    MainCompleted =>
        /\ haveDone => file = lastDone
        /\ \A n \in 1..Len(file) : file[n] # S("old")

C8_Witness ==
    /\ pc = "returned"
    /\ haveDone
    /\ run = 2
    /\ Len(file) > 0
    /\ file = lastDone

\* C9 as stated: no record is written before all 16 hashes have been
\* computed, and the file is opened before the first hash is computed.
C9_PhasesAsStated ==
    LET parsed == Parsed
        recs == parsed.records
    IN
        /\ Len(recs) > 0 => hashCalls = 16
        /\ hashCalls > 0 => fd # "none"

\* C9 amended: arguments are parsed before the file is opened, the file is
\* opened before the first hash is computed, each record is written after
\* its hash and before the next hash is computed, the closing ']' is
\* written after all 16 hashes, and the file is closed last.
C9_Interleaved ==
    LET parsed == Parsed
        recs == parsed.records
    IN
        /\ fd # "none" => Len(argv) >= 2
        /\ hashCalls > 0 => fd # "none"
        /\ pc \in {"key", "write_open", "salt_loop", "persona_loop",
                   "write_close", "close", "returned"} =>
              hashCalls = Len(recs)
        /\ pc \in {"salt_write", "persona_write"} =>
              hashCalls = Len(recs) + 1
        /\ parsed.state = "closed" => hashCalls = 16
        /\ fd = "closed" =>
              /\ hashCalls = 16
              /\ pc \in {"returned", "raised", "exited"}

C9_Witness ==
    LET parsed == Parsed
        recs == parsed.records
    IN
        /\ pc = "salt_loop"
        /\ hashCalls = 1
        /\ Len(recs) = 1

\* C10: when open fails, the exception leaves main with no hash computed
\* and nothing written, the next thing that happens is the exit of the
\* process, and its status is not 0.
C10_OpenFailure ==
    [][/\ (pc = "open" /\ pc' = "raised") =>
             /\ fd' = "none"
             /\ hashCalls' = 0
             /\ buf' = <<>>
             /\ UNCHANGED <<exists, file, stdout>>
       /\ (pc = "raised" /\ fd = "none") =>
             /\ pc' = "exited"
             /\ status' # 0
             /\ hashCalls' = 0
             /\ UNCHANGED <<fd, buf, exists, file, stdout>>]_vars

C10_Witness ==
    /\ pc = "exited"
    /\ Len(argv) >= 2
    /\ fd = "none"
    /\ status = 1
    /\ ~exists

====
